---- MODULE Spec2Model ----
(***************************************************************************)
(* A model of the gclients HTTP client bindings:                           *)
(*   - httpClient.Do    (prometheus/client.go): auth injection, transport  *)
(*     round trip, concurrent body drain raced against ctx cancellation;   *)
(*   - httpClient.Proxy (prometheus/client.go): the raw grequests proxy;   *)
(*   - httpClient.URL   (prometheus/client.go): placeholder substitution;  *)
(*   - apiClient.Do     (prometheus/v1/api.go): envelope interpretation.   *)
(***************************************************************************)
EXTENDS Integers, Sequences, FiniteSets, TLC

\* ---------------------------------------------------------------- bounds
\* Largest response body, in chunks delivered by one Read each.
MaxChunks == 2
\* Most path segments of an endpoint template.
MaxSegments == 2
\* Longest replacement value of a placeholder, in characters.
MaxValueLen == 2

\* ------------------------------------------------------- error values
NoErr == "nil"
ErrCanceled == "context canceled"
ErrTransport == "transport error"
ErrRedirect == "redirect refused"
ErrRead == "unexpected EOF"
ErrClosed == "read on closed response body"
ErrClose == "close error"

\* ------------------------------------------------------------- state
VARIABLES
    c,          \* httpClient fields: username, password, bearerToken
    ctx,        \* the caller's context: "nil", "active" or "canceled"
    pc,         \* position of the calling path
    wire,       \* the request handed to the transport, or NoReq
    resp,       \* resp != nil
    bodyLen,    \* chunks the server will deliver for this response
    stallAt,    \* the server stops sending after this many chunks (-1: never)
    bodyClosed, \* the response body has been closed
    closeCalls, \* number of resp.Body.Close() calls made by Do
    err,        \* the variable err of Do, shared with the drain goroutine
    body,       \* the variable body of Do, shared with the drain goroutine
    closeRes,   \* the value resp.Body.Close() returned, before it is stored
    done,       \* the channel done has been closed
    gpc,        \* position of the drain goroutine
    gbuf,       \* chunks io.ReadAll has read so far
    gres,       \* the error io.ReadAll returned
    branch,     \* the select case taken: "none", "cancel" or "done"
    cancelAt,   \* gpc at the moment the context was cancelled ("none": never)
    proxyArgs,  \* Proxy: the method and url the caller passed
    ret,        \* what the call returned, or NoRet
    endpoint,   \* URL: c.endpoint.Path
    ep,         \* URL: the endpoint template, a sequence of path segments
    args,       \* URL: the placeholder map
    urlPc,      \* URL: "idle" or "done"
    urlPath,    \* URL: the Path of the returned URL
    inner,      \* apiClient.Do: what the wrapped Client.Do returned
    apiPc,      \* apiClient.Do: "idle" or "done"
    apiRet,     \* apiClient.Do: what the wrapper returned
    amRet,      \* alertmanager apiClient.Do: what the wrapper returned
    payload,    \* Query: the content of the envelope's data
    qRet        \* Query: what it returned

doVars == <<c, ctx, pc, wire, resp, bodyLen, stallAt, bodyClosed, closeCalls,
            err, body, closeRes, done, gpc, gbuf, gres, branch, cancelAt, ret,
            proxyArgs>>

urlVars == <<endpoint, ep, args, urlPc, urlPath>>

apiVars == <<inner, apiPc, apiRet, amRet, payload, qRet>>

vars == <<doVars, urlVars, apiVars>>

NoReq == [via |-> "none"]
NoRet == [kind |-> "none"]

Credentials == {"", "x"}
Methods == {"GET", "POST", "PUT", "DELETE", "PATCH"}
Paths == {"/api/v1/query", "/api/v1/labels"}

\* ------------------------------------------------------ authentication
\* The Authorization header values Do leaves on a request that came with the
\* values h: SetBasicAuth sets the header, Header.Add appends to it.
DoAuth(cl, h) ==
    IF cl.username # "" THEN <<"Basic">>
    ELSE IF cl.bearerToken # "" THEN Append(h, "Bearer")
    ELSE h

\* A faulty variant of ProxyAuth: the bearer token is tried before the credentials.
ProxyAuthBearerFirst(cl) ==
    IF cl.bearerToken # "" THEN <<"Bearer">>
    ELSE IF cl.username # "" /\ cl.password # "" THEN <<"Basic">>
    ELSE <<>>

\* The Authorization header values of the request grequests builds for Proxy.
ProxyAuth(cl) ==
    IF cl.username # "" /\ cl.password # "" THEN <<"Basic">>
    ELSE IF cl.bearerToken # "" THEN <<"Bearer">>
    ELSE <<>>

\* ------------------------------------------------------- the calling path
callVars == <<resp, bodyLen, stallAt, bodyClosed, closeCalls, err, body,
              closeRes, done, gpc, gbuf, gres, branch, ret>>

\* No URL call and no wrapper call is under way.
URLIdle ==
    /\ endpoint = <<>>
    /\ ep = <<>>
    /\ args = <<>>
    /\ urlPc = "idle"
    /\ urlPath = <<>>

APIIdle ==
    /\ inner = [code |-> 0, err |-> [Type |-> "nil", Msg |-> ""]]
    /\ payload = [resultType |-> "<absent>", resultOK |-> FALSE]
    /\ apiPc = "idle"
    /\ apiRet = [kind |-> "none"]
    /\ amRet = [kind |-> "none"]
    /\ qRet = [kind |-> "none"]

\* No call of Do or Proxy has started.
DoIdle ==
    /\ pc = "idle"
    /\ wire = NoReq
    /\ resp = FALSE
    /\ bodyLen = 0
    /\ stallAt = -1
    /\ bodyClosed = FALSE
    /\ closeCalls = 0
    /\ err = NoErr
    /\ body = 0
    /\ closeRes = NoErr
    /\ done = FALSE
    /\ gpc = "notStarted"
    /\ gbuf = 0
    /\ gres = NoErr
    /\ branch = "none"
    /\ cancelAt = "none"
    /\ ret = NoRet
    /\ proxyArgs = [method |-> "", url |-> ""]

\* NewClient: any configuration; the call has not started.
Init ==
    /\ URLIdle
    /\ APIIdle
    /\ c \in [username : Credentials, password : Credentials,
              bearerToken : Credentials]
    /\ ctx \in {"nil", "active"}
    /\ DoIdle

\* Do, up to the hand-over to the transport: attach ctx, inject auth.
DoSend ==
    /\ pc = "idle"
    /\ wire' = [via |-> "Do", method |-> "GET", url |-> "/api/v1/query",
                auth |-> DoAuth(c, <<>>), hasCtx |-> (ctx # "nil")]
    /\ pc' = "transport"
    /\ UNCHANGED <<urlVars, apiVars, proxyArgs, c, ctx, cancelAt>>
    /\ UNCHANGED callVars

\* c.client.Do(req) returns a response.
TransportResponds ==
    /\ pc = "transport"
    /\ \E n \in 0..MaxChunks, s \in -1..MaxChunks :
        /\ s < n
        /\ bodyLen' = n
        /\ stallAt' = s
    /\ resp' = TRUE
    /\ err' = NoErr
    /\ pc' = "checkErr"
    /\ UNCHANGED <<urlVars, apiVars, proxyArgs, c, ctx, wire, bodyClosed, closeCalls, body, closeRes, done,
                   gpc, gbuf, gres, branch, cancelAt, ret>>

\* c.client.Do(req) fails: no response, or (a refused redirect) a response
\* whose body the http client has already closed.
TransportFails ==
    /\ pc = "transport"
    /\ \/ /\ resp' = FALSE
          /\ err' \in {ErrTransport} \cup
                      (IF ctx = "canceled" THEN {ErrCanceled} ELSE {})
          /\ bodyClosed' = FALSE
       \/ /\ resp' = TRUE
          /\ err' = ErrRedirect
          /\ bodyClosed' = TRUE
    /\ pc' = "checkErr"
    /\ UNCHANGED <<urlVars, apiVars, proxyArgs, c, ctx, wire, bodyLen, stallAt, closeCalls, body, closeRes,
                   done, gpc, gbuf, gres, branch, cancelAt, ret>>

\* if err != nil { return nil, nil, err }
ReturnTransportErr ==
    /\ pc = "checkErr"
    /\ err # NoErr
    /\ ret' = [kind |-> "return", resp |-> FALSE, body |-> 0, err |-> err]
    /\ pc' = "deferred"
    /\ UNCHANGED <<urlVars, apiVars, proxyArgs, c, ctx, wire, resp, bodyLen, stallAt, bodyClosed, closeCalls,
                   err, body, closeRes, done, gpc, gbuf, gres, branch, cancelAt>>

\* done := make(chan struct{}); go func() {...}()
Spawn ==
    /\ pc = "checkErr"
    /\ err = NoErr
    /\ gpc' = "reading"
    /\ pc' = "select"
    /\ UNCHANGED <<urlVars, apiVars, proxyArgs, c, ctx, wire, resp, bodyLen, stallAt, bodyClosed, closeCalls,
                   err, body, closeRes, done, gbuf, gres, branch, cancelAt, ret>>

\* select: case <-ctx.Done()
SelectCancel ==
    /\ pc = "select"
    /\ ctx = "canceled"
    /\ branch' = "cancel"
    /\ pc' = "closeBody"
    /\ UNCHANGED <<urlVars, apiVars, proxyArgs, c, ctx, wire, resp, bodyLen, stallAt, bodyClosed, closeCalls,
                   err, body, closeRes, done, gpc, gbuf, gres, cancelAt, ret>>

\* select: case <-done
SelectDone ==
    /\ pc = "select"
    /\ ctx # "nil"
    /\ done
    /\ branch' = "done"
    /\ pc' = "return"
    /\ UNCHANGED <<urlVars, apiVars, proxyArgs, c, ctx, wire, resp, bodyLen, stallAt, bodyClosed, closeCalls,
                   err, body, closeRes, done, gpc, gbuf, gres, cancelAt, ret>>

\* select evaluates ctx.Done() on a nil context: nil dereference, Do panics.
SelectNilCtx ==
    /\ pc = "select"
    /\ ctx = "nil"
    /\ ret' = [kind |-> "panic"]
    /\ pc' = "deferred"
    /\ UNCHANGED <<urlVars, apiVars, proxyArgs, c, ctx, wire, resp, bodyLen, stallAt, bodyClosed, closeCalls,
                   err, body, closeRes, done, gpc, gbuf, gres, branch, cancelAt>>

\* A faulty variant of CloseBody: the cancellation branch does not close the body.
CloseBodyNoClose ==
    /\ pc = "closeBody"
    /\ closeRes' = NoErr
    /\ pc' = "storeCloseErr"
    /\ UNCHANGED <<urlVars, apiVars, proxyArgs, c, ctx, wire, resp, bodyLen, stallAt, bodyClosed, closeCalls,
                   err, body, done, gpc, gbuf, gres, branch, cancelAt, ret>>

\* resp.Body.Close() in the cancellation branch: the call itself.
CloseBody ==
    /\ pc = "closeBody"
    /\ bodyClosed' = TRUE
    /\ closeCalls' = closeCalls + 1
    /\ closeRes' \in {NoErr, ErrClose}
    /\ pc' = "storeCloseErr"
    /\ UNCHANGED <<urlVars, apiVars, proxyArgs, c, ctx, wire, resp, bodyLen, stallAt, err, body, done, gpc,
                   gbuf, gres, branch, cancelAt, ret>>

\* err = (result of Close): an unsynchronised write to the shared err.
StoreCloseErr ==
    /\ pc = "storeCloseErr"
    /\ err' = closeRes
    /\ pc' = "waitDone"
    /\ UNCHANGED <<urlVars, apiVars, proxyArgs, c, ctx, wire, resp, bodyLen, stallAt, bodyClosed, closeCalls,
                   body, closeRes, done, gpc, gbuf, gres, branch, cancelAt, ret>>

\* A faulty variant of WaitDone: the cancellation branch does not wait for the drain.
WaitDoneNoWait ==
    /\ pc = "waitDone"
    /\ pc' = "ctxErr"
    /\ UNCHANGED <<urlVars, apiVars, proxyArgs, c, ctx, wire, resp, bodyLen, stallAt, bodyClosed, closeCalls,
                   err, body, closeRes, done, gpc, gbuf, gres, branch, cancelAt,
                   ret>>

\* <-done
WaitDone ==
    /\ pc = "waitDone"
    /\ done
    /\ pc' = "ctxErr"
    /\ UNCHANGED <<urlVars, apiVars, proxyArgs, c, ctx, wire, resp, bodyLen, stallAt, bodyClosed, closeCalls,
                   err, body, closeRes, done, gpc, gbuf, gres, branch, cancelAt,
                   ret>>

\* A faulty variant of CtxErr: the context's error is never stored.
CtxErrKeepsNil ==
    /\ pc = "ctxErr"
    /\ pc' = "return"
    /\ UNCHANGED <<urlVars, apiVars, proxyArgs, c, ctx, wire, resp, bodyLen, stallAt, bodyClosed, closeCalls,
                   err, body, closeRes, done, gpc, gbuf, gres, branch, cancelAt,
                   ret>>

\* if err == nil { err = ctx.Err() }
CtxErr ==
    /\ pc = "ctxErr"
    /\ err' = IF err = NoErr THEN ErrCanceled ELSE err
    /\ pc' = "return"
    /\ UNCHANGED <<urlVars, apiVars, proxyArgs, c, ctx, wire, resp, bodyLen, stallAt, bodyClosed, closeCalls,
                   body, closeRes, done, gpc, gbuf, gres, branch, cancelAt, ret>>

\* return resp, body, err
Return ==
    /\ pc = "return"
    /\ ret' = [kind |-> "return", resp |-> resp, body |-> body, err |-> err]
    /\ pc' = "deferred"
    /\ UNCHANGED <<urlVars, apiVars, proxyArgs, c, ctx, wire, resp, bodyLen, stallAt, bodyClosed, closeCalls,
                   err, body, closeRes, done, gpc, gbuf, gres, branch, cancelAt>>

\* A faulty variant of DeferredClose: no deferred Close.
DeferredNoClose ==
    /\ pc = "deferred"
    /\ pc' = IF ret.kind = "panic" THEN "panicked" ELSE "returned"
    /\ UNCHANGED <<urlVars, apiVars, proxyArgs, c, ctx, wire, resp, bodyLen, stallAt, bodyClosed, closeCalls,
                   err, body, closeRes, done, gpc, gbuf, gres, branch, cancelAt,
                   ret>>

\* defer func() { if resp != nil { resp.Body.Close() } }()
DeferredClose ==
    /\ pc = "deferred"
    /\ IF resp
         THEN /\ bodyClosed' = TRUE
              /\ closeCalls' = closeCalls + 1
         ELSE UNCHANGED <<bodyClosed, closeCalls>>
    /\ pc' = IF ret.kind = "panic" THEN "panicked" ELSE "returned"
    /\ UNCHANGED <<urlVars, apiVars, proxyArgs, c, ctx, wire, resp, bodyLen, stallAt, err, body, closeRes,
                   done, gpc, gbuf, gres, branch, cancelAt, ret>>

\* ---------------------------------------------------- the drain goroutine
\* One Read of io.ReadAll that delivers the next chunk.
ReadChunk ==
    /\ gpc = "reading"
    /\ ~bodyClosed
    /\ gbuf < bodyLen
    /\ gbuf # stallAt
    /\ gbuf' = gbuf + 1
    /\ UNCHANGED <<urlVars, apiVars, proxyArgs, c, ctx, pc, wire, resp, bodyLen, stallAt, bodyClosed,
                   closeCalls, err, body, closeRes, done, gpc, gres, branch,
                   cancelAt, ret>>

\* The Read that ends io.ReadAll: EOF after the last chunk (no error), a
\* failed read on the open body, a read aborted by the request's context, or
\* a read on the closed body.
ReadEnds ==
    /\ gpc = "reading"
    /\ \/ /\ ~bodyClosed
          /\ gbuf = bodyLen
          /\ gres' = NoErr
       \/ /\ ~bodyClosed
          /\ gbuf # stallAt
          /\ gres' = ErrRead
       \/ /\ ~bodyClosed
          /\ ctx = "canceled"
          /\ gbuf # stallAt
          /\ gres' = ErrCanceled
       \/ /\ bodyClosed
          /\ gres' = ErrClosed
    /\ gpc' = "store"
    /\ UNCHANGED <<urlVars, apiVars, proxyArgs, c, ctx, pc, wire, resp, bodyLen, stallAt, bodyClosed,
                   closeCalls, err, body, closeRes, done, gbuf, branch,
                   cancelAt, ret>>

\* body, err = (result of io.ReadAll): unsynchronised writes to the shared
\* body and err.
StoreRead ==
    /\ gpc = "store"
    /\ body' = gbuf
    /\ err' = gres
    /\ gpc' = "closeDone"
    /\ UNCHANGED <<urlVars, apiVars, proxyArgs, c, ctx, pc, wire, resp, bodyLen, stallAt, bodyClosed,
                   closeCalls, closeRes, done, gbuf, gres, branch, cancelAt,
                   ret>>

\* close(done)
CloseDone ==
    /\ gpc = "closeDone"
    /\ done' = TRUE
    /\ gpc' = "exited"
    /\ UNCHANGED <<urlVars, apiVars, proxyArgs, c, ctx, pc, wire, resp, bodyLen, stallAt, bodyClosed,
                   closeCalls, err, body, closeRes, gbuf, gres, branch,
                   cancelAt, ret>>

\* ----------------------------------------------------------- environment
\* The caller cancels the context (or its deadline passes) during the call.
Cancel ==
    /\ ctx = "active"
    /\ pc \notin {"returned", "panicked", "proxied"}
    /\ ctx' = "canceled"
    /\ cancelAt' = gpc
    /\ UNCHANGED <<urlVars, apiVars, proxyArgs, c, pc, wire>>
    /\ UNCHANGED callVars

\* --------------------------------------------------------------- Proxy
\* c.endpoint.String(), the base address the client was built with.
EndpointString == "http://host"

\* A faulty variant of Implemented: the switch lists every method.
ImplementedAll == {"GET", "POST", "PUT", "DELETE", "PATCH"}

\* The methods the switch of Proxy lists.
Implemented == {"GET", "POST", "PUT", "DELETE"}

\* Proxy(method, url, params, data): one grequests call, or the error for a
\* method the switch does not list.
Proxy ==
    /\ pc = "idle"
    /\ \E method \in Methods, url \in Paths :
        /\ proxyArgs' = [method |-> method, url |-> url]
        /\ IF method \in Implemented
             THEN /\ wire' = [via |-> "Proxy", method |-> method,
                              url |-> EndpointString \o url,
                              auth |-> ProxyAuth(c), hasCtx |-> FALSE]
                  /\ \E e \in {NoErr, ErrTransport} :
                       ret' = [kind |-> "return", resp |-> (e = NoErr),
                               body |-> 0, err |-> e]
             ELSE /\ wire' = NoReq
                  /\ ret' = [kind |-> "return", resp |-> FALSE, body |-> 0,
                             err |-> "oh no, method " \o method
                                     \o " has not been implemented"]
    /\ pc' = "proxied"
    /\ UNCHANGED <<urlVars, apiVars, c, ctx, resp, bodyLen, stallAt, bodyClosed, closeCalls, err,
                   body, closeRes, done, gpc, gbuf, gres, branch, cancelAt>>

Main ==
    \/ DoSend
    \/ TransportResponds
    \/ TransportFails
    \/ ReturnTransportErr
    \/ Spawn
    \/ SelectCancel
    \/ SelectDone
    \/ SelectNilCtx
    \/ CloseBody
    \/ StoreCloseErr
    \/ WaitDone
    \/ CtxErr
    \/ Return
    \/ DeferredClose

Drain ==
    \/ ReadChunk
    \/ ReadEnds
    \/ StoreRead
    \/ CloseDone

Next ==
    \/ Main
    \/ Drain
    \/ Cancel
    \/ Proxy

Spec == Init /\ [][Next]_vars

FairSpec == Spec /\ WF_vars(Main) /\ WF_vars(Drain)

\* ------------------------------------------------------------------ URL
\* Strings are sequences of one-character strings.
RECURSIVE Replace(_, _, _)
\* strings.Replace(s, old, new, -1) for a non-empty old: the non-overlapping
\* occurrences of old, found left to right, become new.
Replace(s, old, new) ==
    IF Len(s) < Len(old) THEN s
    ELSE IF SubSeq(s, 1, Len(old)) = old
           THEN new \o Replace(SubSeq(s, Len(old) + 1, Len(s)), old, new)
           ELSE <<Head(s)>> \o Replace(Tail(s), old, new)

RECURSIVE Collapse(_)
\* path.Clean, rule 1: runs of slashes become one slash.
Collapse(s) ==
    IF Len(s) < 2 THEN s
    ELSE IF s[1] = "/" /\ s[2] = "/" THEN Collapse(Tail(s))
    ELSE <<s[1]>> \o Collapse(Tail(s))

\* path.Clean on a path without "." and ".." elements.
Clean(s) ==
    LET t == Collapse(s) IN
    IF t = <<>> THEN <<".">>
    ELSE IF Len(t) > 1 /\ t[Len(t)] = "/" THEN SubSeq(t, 1, Len(t) - 1)
    ELSE t

\* path.Join(a, b): empty elements are ignored, the rest joined by "/" and
\* cleaned.
Join(a, b) ==
    IF a = <<>> /\ b = <<>> THEN <<>>
    ELSE IF a = <<>> THEN Clean(b)
    ELSE IF b = <<>> THEN Clean(a)
    ELSE Clean(a \o <<"/">> \o b)

\* A faulty variant of Substitute: the ":" is not put before the name.
SubstituteNoColon(p, arg, val) == Replace(p, arg, val)

\* The body of the range loop: arg = ":" + arg; p = strings.Replace(...).
Substitute(p, arg, val) == Replace(p, <<":">> \o arg, val)

RECURSIVE Range(_, _, _)
\* for arg, val := range args, the map iterated in the order ord.
Range(p, a, ord) ==
    IF ord = <<>> THEN p
    ELSE Range(Substitute(p, Head(ord), a[Head(ord)]), a, Tail(ord))

\* The Path of URL(e, a) when the map is iterated in the order ord.
URLPath(base, e, a, ord) == Range(Join(base, e), a, ord)

\* The orders in which a map with the keys S can be iterated.
Orders(S) ==
    {o \in [1..Cardinality(S) -> S] :
        \A i, j \in 1..Cardinality(S) : o[i] = o[j] => i = j}

\* Endpoint templates: "/" before each segment, a segment a literal or a
\* placeholder ":name", no placeholder name twice (as in epLabelValues).
Names == {<<"a">>, <<"b">>, <<"a", "b">>}

Segments == {<<"x">>} \cup {<<":">> \o n : n \in Names}

Templates ==
    {t \in UNION {[1..n -> Segments] : n \in 1..MaxSegments} :
        \A i, j \in 1..Len(t) : (t[i] = t[j] /\ t[i][1] = ":") => i = j}

RECURSIVE EpString(_)
\* The template as the string the code passes to URL.
EpString(t) ==
    IF t = <<>> THEN <<>> ELSE <<"/">> \o Head(t) \o EpString(Tail(t))

ValueChars == {":", "a"}

Values == UNION {[1..n -> ValueChars] : n \in 0..MaxValueLen}

ArgMaps == UNION {[D -> Values] : D \in SUBSET Names}

\* A client whose address has the path "" or "/p", and the inputs of one call
\* of URL.
InitURL ==
    /\ APIIdle
    /\ c = [username |-> "", password |-> "", bearerToken |-> ""]
    /\ ctx = "active"
    /\ DoIdle
    /\ endpoint \in {<<>>, <<"/", "p">>}
    /\ ep \in Templates
    /\ args \in ArgMaps
    /\ urlPc = "idle"
    /\ urlPath = <<>>

\* URL(ep, args): Go iterates the map in an order of its own choosing.
URL ==
    /\ urlPc = "idle"
    /\ ep # <<>>
    /\ \E ord \in Orders(DOMAIN args) :
         urlPath' = URLPath(endpoint, EpString(ep), args, ord)
    /\ urlPc' = "done"
    /\ UNCHANGED <<doVars, apiVars, endpoint, ep, args>>

NextURL == URL

SpecURL == InitURL /\ [][NextURL]_vars

\* ---------------------------------------------------------- apiClient.Do
statusAPIError == 422

ErrBadData == "bad_data"
ErrTimeout == "timeout"
ErrBadResponse == "bad_response"

\* Errors are (Type, Msg) pairs; NilError is the nil error.
NilError == [Type |-> "nil", Msg |-> ""]

InnerErrors ==
    {NilError, [Type |-> "transport", Msg |-> ErrTransport],
     [Type |-> "context", Msg |-> ErrCanceled]}

Codes == {200, 204, 299, 301, 404, 422, 500}

\* A response body: not JSON at all, or a JSON object in which each of the
\* four envelope fields is absent or has a string value.
Absent == "<absent>"

Malformed ==
    [valid |-> FALSE, status |-> Absent, data |-> Absent, errorType |-> Absent,
     error |-> Absent]

Bodies ==
    {Malformed} \cup
    [valid : {TRUE}, status : {Absent, "success", "error"},
     data : {Absent, "{...}"}, errorType : {Absent, ErrBadData, ErrTimeout},
     error : {Absent, "parse error"}]

\* A field json.Unmarshal does not find keeps its zero value.
Field(v) == IF v = Absent THEN "" ELSE v

\* json.Unmarshal(body, &result) into an apiResponse.
Unmarshal(b) ==
    IF b.valid
      THEN [err |-> NilError, Status |-> Field(b.status), Data |-> Field(b.data),
            ErrorType |-> Field(b.errorType), Error |-> Field(b.error)]
      ELSE [err |-> [Type |-> "json", Msg |-> "invalid character"],
            Status |-> "", Data |-> "", ErrorType |-> "", Error |-> ""]

InconsistentBody ==
    [Type |-> ErrBadResponse, Msg |-> "inconsistent body for response code"]

\* A faulty variant of EnvelopeError: the envelope's error is taken whatever the code.
EnvelopeErrorAnyCode(code, result) ==
    IF result.Status = "error"
      THEN [Type |-> result.ErrorType, Msg |-> result.Error]
      ELSE IF code = statusAPIError THEN InconsistentBody ELSE NilError

\* A faulty variant of EnvelopeError: the 422 check that takes the envelope's
\* error is missing.
EnvelopeErrorMismatchOnly(code, result) ==
    IF (code = statusAPIError) # (result.Status = "error")
      THEN InconsistentBody
      ELSE NilError

\* The two checks that follow the decoding: the mismatch check, then the
\* 422 check, which overwrites err.
EnvelopeError(code, result) ==
    LET mismatch ==
            IF (code = statusAPIError) # (result.Status = "error")
              THEN InconsistentBody
              ELSE NilError
    IN IF code = statusAPIError /\ result.Status = "error"
         THEN [Type |-> result.ErrorType, Msg |-> result.Error]
         ELSE mismatch

\* A faulty variant of ApiDo: the body is decoded whatever the status code.
ApiDoAnyCode(in) ==
    IF in.err # NilError
      THEN [kind |-> "return", resp |-> in.resp, raw |-> TRUE,
            body |-> in.body, data |-> "", err |-> in.err]
    ELSE LET result == Unmarshal(in.body) IN
      IF result.err # NilError
        THEN [kind |-> "return", resp |-> in.resp, raw |-> TRUE,
              body |-> in.body, data |-> "",
              err |-> [Type |-> ErrBadResponse, Msg |-> result.err.Msg]]
        ELSE [kind |-> "return", resp |-> in.resp, raw |-> FALSE,
              body |-> Malformed, data |-> result.Data,
              err |-> EnvelopeError(in.code, result)]

\* apiClient.Do on what the wrapped Client.Do returned.
ApiDo(in) ==
    IF in.err # NilError
      THEN [kind |-> "return", resp |-> in.resp, raw |-> TRUE,
            body |-> in.body, data |-> "", err |-> in.err]
    ELSE IF in.code \div 100 # 2 /\ in.code # statusAPIError
      THEN [kind |-> "return", resp |-> in.resp, raw |-> TRUE,
            body |-> in.body, data |-> "",
            err |-> [Type |-> ErrBadResponse,
                     Msg |-> "bad response code " \o ToString(in.code)]]
    ELSE LET result == Unmarshal(in.body) IN
      IF result.err # NilError
        THEN [kind |-> "return", resp |-> in.resp, raw |-> TRUE,
              body |-> in.body, data |-> "",
              err |-> [Type |-> ErrBadResponse, Msg |-> result.err.Msg]]
        ELSE [kind |-> "return", resp |-> in.resp, raw |-> FALSE,
              body |-> Malformed, data |-> result.Data,
              err |-> EnvelopeError(in.code, result)]

\* ------------------------------------------- alertmanager apiClient.Do
StatusOK == 200

\* The alertmanager wrapper: any code other than 200 becomes a clientError
\* (its msg is never set); the body is returned as it came.
AmDo(in) ==
    IF in.err # NilError
      THEN [kind |-> "return", resp |-> in.resp, body |-> in.body,
            err |-> in.err]
    ELSE IF in.code # StatusOK
      THEN [kind |-> "return", resp |-> in.resp, body |-> in.body,
            err |-> [Type |-> "clientError",
                     Msg |-> " (code: " \o ToString(in.code) \o ")"]]
    ELSE [kind |-> "return", resp |-> in.resp, body |-> in.body,
          err |-> NilError]

\* ------------------------------------------------------ Query decoding
\* The data of a query response: a JSON object whose resultType is absent or
\* a string, and whose result does or does not decode into the value the
\* resultType names.
ResultTypes == {Absent, "scalar", "vector", "matrix", "string", "unknown"}

Payloads == [resultType : ResultTypes, resultOK : BOOLEAN]

\* model.ValueType as json.Unmarshal leaves it: the zero value ValNone for an
\* absent field, an error for a string that names no value type.
ParseValueType(t) ==
    IF t = Absent THEN [err |-> NilError, type |-> "<ValNone>"]
    ELSE IF t \in {"scalar", "vector", "matrix", "string"}
      THEN [err |-> NilError, type |-> t]
    ELSE [err |-> [Type |-> "json", Msg |-> "unknown value type"],
          type |-> "<ValNone>"]

\* A faulty variant of QueryDecode: the switch has no default case.
QueryDecodeNoDefault(pl) ==
    LET t == ParseValueType(pl.resultType)
        e == IF pl.resultOK THEN NilError
             ELSE [Type |-> "json", Msg |-> "cannot unmarshal result"]
    IN IF t.err # NilError THEN [v |-> "nil", err |-> t.err]
       ELSE IF t.type \in {"scalar", "vector", "matrix"}
         THEN [v |-> t.type, err |-> e]
       ELSE [v |-> "nil", err |-> NilError]

\* queryResult.UnmarshalJSON: the discriminator first, then the result into
\* the variant it names; qr.v is set even when the result fails to decode.
QueryDecode(pl) ==
    LET t == ParseValueType(pl.resultType)
        e == IF pl.resultOK THEN NilError
             ELSE [Type |-> "json", Msg |-> "cannot unmarshal result"]
    IN IF t.err # NilError THEN [v |-> "nil", err |-> t.err]
       ELSE IF t.type \in {"scalar", "vector", "matrix"}
         THEN [v |-> t.type, err |-> e]
       ELSE [v |-> "nil",
             err |-> [Type |-> "decode", Msg |-> "unexpected value type"]]

\* Query after the request is built: r is what the wrapper's Do returned.
Query(r, pl) ==
    IF r.err # NilError
      THEN [kind |-> "return", v |-> "nil", err |-> r.err]
    ELSE IF r.data = ""
      THEN [kind |-> "return", v |-> "nil",
            err |-> [Type |-> "json", Msg |-> "unexpected end of JSON input"]]
    ELSE LET d == QueryDecode(pl) IN
         [kind |-> "return", v |-> d.v, err |-> d.err]

\* What Client.Do can hand to the wrapper: (nil, nil, err), or a response with
\* its body and any error.
InnerResults ==
    [resp : {TRUE}, code : Codes, body : Bodies, err : InnerErrors] \cup
    [resp : {FALSE}, code : {0}, body : {Malformed},
     err : InnerErrors \ {NilError}]

InitAPI ==
    /\ URLIdle
    /\ c = [username |-> "", password |-> "", bearerToken |-> ""]
    /\ ctx = "active"
    /\ DoIdle
    /\ inner \in InnerResults
    /\ payload \in Payloads
    /\ apiPc = "idle"
    /\ apiRet = [kind |-> "none"]
    /\ amRet = [kind |-> "none"]
    /\ qRet = [kind |-> "none"]

APIDo ==
    /\ apiPc = "idle"
    /\ apiRet' = ApiDo(inner)
    /\ apiPc' = "done"
    /\ UNCHANGED <<doVars, urlVars, inner, amRet, payload, qRet>>

\* The alertmanager wrapper's Do on the same result of Client.Do.
AMDo ==
    /\ amRet.kind = "none"
    /\ amRet' = AmDo(inner)
    /\ UNCHANGED <<doVars, urlVars, inner, apiPc, apiRet, payload, qRet>>

\* Query (and QueryRange, whose code after the request is the same): the
\* wrapper's Do, then the decoding of the data it returned.
QueryCall ==
    /\ qRet.kind = "none"
    /\ qRet' = Query(ApiDo(inner), payload)
    /\ UNCHANGED <<doVars, urlVars, inner, apiPc, apiRet, amRet, payload>>

NextAPI ==
    \/ APIDo
    \/ AMDo
    \/ QueryCall

SpecAPI == InitAPI /\ [][NextAPI]_vars

\* ------------------------------------------------------------- claims
Returned == pc = "returned"

DrainEnded == gpc = "exited"

\* C1: whenever the drain ends with a non-cancellation error and the context
\* is cancelled in the same call, Do returns the drain's error, in every
\* interleaving.
C1_DrainErrorTakesPrecedence ==
    (Returned /\ DrainEnded /\ gres \notin {NoErr, ErrCanceled}
       /\ ctx = "canceled")
    => ret.err = gres

\* C2 as claimed: if the drain finishes reading the whole body without error
\* before the cancellation fires, Do returns the response, the fully read
\* bytes and a nil error, also when both channels are ready at the select.
C2_DrainFirstReturnsNoError ==
    (Returned /\ DrainEnded /\ gres = NoErr /\ cancelAt \in {"none", "exited"})
    => ret = [kind |-> "return", resp |-> TRUE, body |-> bodyLen,
              err |-> NoErr]

\* C2 as amended: if the drain finishes reading the whole body without error
\* before the cancellation fires, Do returns the response and the fully read
\* bytes; the error is nil when the select takes the done case, which it
\* does whenever the context was never cancelled, and it is the context's
\* cancellation error or the error of Body.Close when both channels are ready
\* and the select takes the cancellation case.
C2_DrainFirstReturnsBody ==
    (Returned /\ DrainEnded /\ gres = NoErr /\ cancelAt \in {"none", "exited"})
    => /\ ret.kind = "return" /\ ret.resp /\ ret.body = bodyLen
       /\ branch = "done" => ret.err = NoErr
       /\ branch = "cancel" => ret.err \in {ErrCanceled, ErrClose}
       /\ cancelAt = "none" => branch = "done"

C2_Witness ==
    /\ Returned /\ DrainEnded /\ gres = NoErr /\ bodyLen > 0
    /\ cancelAt = "exited" /\ branch = "cancel" /\ ret.err = ErrCanceled

\* C3: in every execution of Do in which the transport returned a response,
\* Close is invoked on the response's body exactly once over the whole call.
C3_CloseExactlyOnce ==
    (Returned /\ resp) => closeCalls = 1

\* C4: whenever Do has returned, a response body obtained from the transport
\* during the call has been closed at least once, on every exit path.
C4_BodyClosedOnReturn ==
    (Returned /\ resp) => (bodyClosed /\ closeCalls >= 1)

C4_Witness ==
    Returned /\ resp /\ ret.err = ErrRedirect /\ closeCalls = 1

\* C5: whenever Do returns after having started the drain task, that task has
\* terminated: it has made its last write to body and err and closed done.
C5_DrainExitedOnReturn ==
    (Returned /\ gpc # "notStarted") => (gpc = "exited" /\ done)

C5_Witness ==
    Returned /\ branch = "cancel" /\ gpc = "exited" /\ gres = ErrClosed

\* C6 as claimed: if the context is cancelled while the body is still being
\* drained, Do returns a non-nil error.
C6_CancelDuringDrainReturnsError ==
    (Returned /\ cancelAt = "reading") => ret.err # NoErr

\* C6 as amended: if the context is cancelled while the body is still being
\* drained then, under weak fairness of both tasks and with a read on a closed
\* body returning, Do eventually returns; when the select took the
\* cancellation case the error it returns is never nil (when the drain ends
\* before the select is evaluated and the select takes the done case, Do
\* returns the drain's own result, which may be a nil error).
C6_CancelDuringDrainEventuallyReturns ==
    /\ (cancelAt = "reading") ~> Returned
    /\ [](Returned /\ branch = "cancel" => ret.err # NoErr)

C6_Witness ==
    /\ Returned /\ cancelAt = "reading" /\ branch = "cancel"
    /\ stallAt = gbuf /\ ret.err # NoErr

\* C7: with basic-auth credentials and a bearer token both set, every request
\* issued through Do and through Proxy carries exactly one authentication
\* mechanism, and it is basic auth.
C7_BothSetUsesBasic ==
    (c.username # "" /\ c.password # "" /\ c.bearerToken # "" /\ wire # NoReq)
    => wire.auth = <<"Basic">>

C7_Witness ==
    /\ c.username # "" /\ c.password # "" /\ c.bearerToken # ""
    /\ wire # NoReq /\ wire.via = "Proxy" /\ wire.auth = <<"Basic">>

\* s contains sub.
Contains(s, sub) ==
    \E i \in 1..(Len(s) - Len(sub) + 1) : SubSeq(s, i, i + Len(sub) - 1) = sub

Token(n) == <<":">> \o n

\* The names of the template's placeholders.
Placeholders(t) == {Tail(t[i]) : i \in {j \in 1..Len(t) : t[j][1] = ":"}}

SuppliesAll == Placeholders(ep) \subseteq DOMAIN args

NoTokenLeft == \A n \in DOMAIN args : ~Contains(urlPath, Token(n))

IsPrefix(m, n) == Len(m) <= Len(n) /\ SubSeq(n, 1, Len(m)) = m

PrefixFree(S) == \A m \in S : \A n \in S : IsPrefix(m, n) => m = n

TokenFree(a) ==
    \A m \in DOMAIN a : \A n \in DOMAIN a : ~Contains(a[m], Token(n))

\* C8 as claimed: for a template with uniquely named placeholders and a
\* mapping that supplies a value for all of them, the returned path contains
\* none of the placeholder tokens, for all replacement values.
C8_NoPlaceholderLeft ==
    (urlPc = "done" /\ SuppliesAll) => NoTokenLeft

\* C8 as amended: for a template with uniquely named placeholders and a
\* mapping that supplies a value for all of them, the returned path contains
\* none of the placeholder tokens, for all replacement values that contain
\* no ':' (a value with a ':' in it can bring in a token or complete one,
\* and strings.Replace does not look at what it has inserted).
C8_NoPlaceholderLeftColonFree ==
    (urlPc = "done" /\ SuppliesAll
       /\ \A n \in DOMAIN args : ~Contains(args[n], <<":">>))
    => NoTokenLeft

C8_Witness ==
    /\ urlPc = "done" /\ SuppliesAll
    /\ Cardinality(Placeholders(ep)) = MaxSegments
    /\ \A n \in DOMAIN args : args[n] # <<>> /\ ~Contains(args[n], <<":">>)
    /\ NoTokenLeft

\* C9 as claimed: for every template with uniquely named placeholders and
\* every placeholder-to-value mapping, all orders of iterating the map give
\* the same path.
C9_OrderImmaterial ==
    (urlPc = "done" /\ DOMAIN args = Placeholders(ep))
    => \A ord \in Orders(DOMAIN args) :
         urlPath = URLPath(endpoint, EpString(ep), args, ord)

\* C9 as amended: for every template with uniquely named placeholders and
\* every mapping that supplies them, all orders of iterating the map give the
\* same path, provided no name in the map is a prefix of another and no value
\* contains the token of a name in the map.
C9_OrderImmaterialPrefixFree ==
    (urlPc = "done" /\ SuppliesAll
       /\ PrefixFree(DOMAIN args)
       /\ TokenFree(args))
    => \A ord \in Orders(DOMAIN args) :
         urlPath = URLPath(endpoint, EpString(ep), args, ord)

C9_Witness ==
    /\ urlPc = "done" /\ SuppliesAll
    /\ Cardinality(Placeholders(ep)) = 2 /\ DOMAIN args = Placeholders(ep)
    /\ PrefixFree(DOMAIN args)
    /\ TokenFree(args)
    /\ \E n \in DOMAIN args : Contains(args[n], <<":">>)
    /\ \A ord \in Orders(DOMAIN args) :
         urlPath = URLPath(endpoint, EpString(ep), args, ord)

Decoded ==
    /\ apiPc = "done" /\ inner.err = NilError /\ inner.body.valid
    /\ (inner.code \div 100 = 2 \/ inner.code = statusAPIError)

\* C10: after a successful round trip, a mismatch between the code and the
\* envelope in either direction (422 with a non-error envelope, a 2xx code
\* with an error envelope) yields the bad_response error with the
\* inconsistency message; with a 2xx code and an error envelope the returned
\* error never carries the envelope's errorType or error.
C10_MismatchIsBadResponse ==
    (Decoded /\ (inner.code = statusAPIError) # (inner.body.status = "error"))
    => /\ apiRet.err = InconsistentBody
       /\ inner.code # statusAPIError =>
            /\ apiRet.err.Type # Field(inner.body.errorType)
            /\ apiRet.err.Msg # Field(inner.body.error)

C10_Witness ==
    /\ Decoded /\ inner.code = 200 /\ inner.body.status = "error"
    /\ inner.body.errorType = ErrBadData /\ inner.body.error = "parse error"
    /\ apiRet.err = InconsistentBody

\* C11: for a response with status code 422 whose envelope has status
\* "error", the returned error is the typed Error whose kind is the
\* envelope's errorType and whose message is the envelope's error.
C11_SoftErrorCarriesEnvelope ==
    (Decoded /\ inner.code = statusAPIError /\ inner.body.status = "error")
    => /\ apiRet.err = [Type |-> Field(inner.body.errorType),
                        Msg |-> Field(inner.body.error)]
       /\ apiRet.err # InconsistentBody

C11_Witness ==
    /\ Decoded /\ inner.code = statusAPIError /\ inner.body.status = "error"
    /\ inner.body.errorType = ErrBadData /\ inner.body.error = "parse error"
    /\ apiRet.err = [Type |-> ErrBadData, Msg |-> "parse error"]

\* C14: after a successful round trip, every response whose status code is
\* neither 2xx nor 422 yields the bad_response error naming the code,
\* whatever the body holds; the body is not decoded and is returned raw.
C14_OtherCodesAreBadResponse ==
    (apiPc = "done" /\ inner.err = NilError
       /\ inner.code \div 100 # 2 /\ inner.code # statusAPIError)
    => /\ apiRet.err = [Type |-> ErrBadResponse,
                        Msg |-> "bad response code " \o ToString(inner.code)]
       /\ apiRet.raw
       /\ apiRet.body = inner.body

C14_Witness ==
    /\ apiPc = "done" /\ inner.err = NilError /\ inner.code = 404
    /\ inner.body.valid /\ inner.body.status = "success"
    /\ apiRet.err = [Type |-> ErrBadResponse, Msg |-> "bad response code 404"]
    /\ apiRet.raw

\* C12: in the Prometheus and the alertmanager wrapper's Do, after a
\* successful round trip, a response with any 2xx status code carrying a
\* well-formed success payload is passed through with no error added.
C12_SuccessPassedThrough ==
    (inner.err = NilError /\ inner.code \div 100 = 2 /\ inner.body.valid
       /\ inner.body.status = "success")
    => /\ apiPc = "done" => apiRet.err = NilError
       /\ amRet.kind = "return" => amRet.err = NilError

\* The wrapper's Do gave Query a data payload and no error.
QueryGotData ==
    /\ qRet.kind = "return" /\ inner.err = NilError /\ inner.body.valid
    /\ inner.code \div 100 = 2 /\ inner.body.status # "error"
    /\ inner.body.data # Absent

\* C13: for resultType scalar, vector or matrix the decoded value is of
\* exactly that variant; for every other resultType Query and QueryRange
\* return a non-nil decode error and no value.
C13_ResultTypeDispatch ==
    QueryGotData
    => IF payload.resultType \in {"scalar", "vector", "matrix"}
         THEN qRet.v = payload.resultType
         ELSE qRet.v = "nil" /\ qRet.err # NilError

C13_Witness ==
    /\ QueryGotData /\ payload.resultType = "string"
    /\ qRet.v = "nil" /\ qRet.err # NilError

\* C15 as claimed: for every method the caller supplies, Proxy issues one
\* request with that method to base address + path.
C15_ForwardsEveryMethod ==
    pc = "proxied"
    => /\ wire # NoReq
       /\ wire.method = proxyArgs.method
       /\ wire.url = EndpointString \o proxyArgs.url

\* C15 as amended: for GET, POST, PUT and DELETE Proxy issues one request
\* with that method to base address + path and returns the transport's
\* result; for any other method it issues no request and returns no response
\* and an error naming the method as not implemented.
C15_ForwardsListedMethods ==
    pc = "proxied"
    => IF proxyArgs.method \in {"GET", "POST", "PUT", "DELETE"}
         THEN /\ wire.via = "Proxy"
              /\ wire.method = proxyArgs.method
              /\ wire.url = EndpointString \o proxyArgs.url
              /\ ret.err \in {NoErr, ErrTransport}
              /\ ret.resp = (ret.err = NoErr)
         ELSE /\ wire = NoReq
              /\ ret.resp = FALSE
              /\ ret.err = "oh no, method " \o proxyArgs.method
                           \o " has not been implemented"

C15_Witness ==
    /\ pc = "proxied" /\ proxyArgs.method = "PATCH"
    /\ wire = NoReq /\ ret.resp = FALSE

\* C16: whichever of Do and Proxy sends the request, it carries the
\* authentication the other one selects for the same client configuration.
C16_SameMechanism ==
    wire # NoReq
    => /\ wire.auth = DoAuth(c, <<>>)
       /\ wire.auth = ProxyAuth(c)

\* C17: with a nil context and a transport that returns a response, Do never
\* panics and returns the drained body.
C17_NilCtxNoPanic ==
    (ctx = "nil" /\ resp)
    => /\ pc # "panicked"
       /\ ret.kind # "panic"

====
